---- MODULE Spec2Model ----
(***************************************************************************)
(* GorillaFlix server: the Express route handlers (server/routes.ts) over  *)
(* the Drizzle/PostgreSQL storage layer (server/storage.ts).               *)
(*                                                                         *)
(* A request is handled in steps: every `await` of a storage call is a     *)
(* point where other requests interleave.  The database is PostgreSQL at   *)
(* READ COMMITTED: a statement outside db.transaction commits on its own;  *)
(* inside db.transaction the writes stay pending (invisible to the other   *)
(* requests, row locks held) until COMMIT, and a throw rolls them back.    *)
(***************************************************************************)
EXTENDS Integers, FiniteSets, Sequences, TLC

\* ---------------------------------------------------------------- bounds
NumUsers == 3        \* registered users 1..NumUsers
MaxVideos == 2       \* uploads (video ids are a serial, never reused)
MaxReq == 2          \* requests in flight at once
MaxRows == 2         \* watchlist rows per (userId, videoId) before inserts stop
MaxComments == 1     \* comments created
MaxViews == 3        \* views of one video before further requests for it stop

\* ------------------------------------------------------ program constants
Admin == 1           \* req.user!.id === 1
Anon == 0            \* a request without an authenticated session
NaN == 0             \* parseInt of a videoId that is not a number

Users == 1..NumUsers
VideoIds == 1..MaxVideos
Slots == 1..MaxReq
Keys == Users \X VideoIds

ReactionRoutes == {"POST /api/likes", "POST /api/dislikes",
                   "DELETE /api/likes/:videoId", "DELETE /api/dislikes/:videoId"}
LikeRoutes == {"POST /api/likes", "DELETE /api/likes/:videoId"}
InsertRoutes == {"POST /api/likes", "POST /api/dislikes"}

VARIABLES
  users,        \* users table: id -> [username, password, avatar, bio]; usernames
                \* are numbered, a null avatar is <<>>, a null bio "-"
  videos,       \* videos table: id -> [userId, views, likes, dislikes, videoUrl, thumbnail]
  nextVideoId,  \* the serial of videos.id
  likes,        \* likes table: <<userId, videoId>> -> number of rows
  dislikes,     \* dislikes table, likewise
  watchlist,    \* watchlist table: <<userId, videoId>> -> number of rows
  comments,     \* comments table: id -> [content, userId, videoId]
  nextCommentId,\* the serial of comments.id
  files,        \* names of the files in uploads/
  nextUpload,   \* stands for randomUUID(): the next fresh file name
  reqs,         \* the requests in flight: slot -> handler position and locals
  resp          \* the response the last step sent, NoResp when it sent none

vars == <<users, videos, nextVideoId, likes, dislikes, watchlist, comments,
          nextCommentId, files, nextUpload, reqs, resp>>

\* a request body is a record of the fields it carries
NoBody == <<>>

Idle == [route |-> "", user |-> Anon, vid |-> 0, pc |-> "idle",
         rowOp |-> "none", delta |-> 0, locked |-> FALSE, vfile |-> 0,
         owner |-> 0, cid |-> 0, views |-> 0, body |-> NoBody]

NoResp == [route |-> "", user |-> Anon, vid |-> 0, status |-> 0, row |-> <<>>,
           via |-> ""]

EmptyTable == [k \in Keys |-> 0]

Init ==
  /\ users = [u \in Users |-> [username |-> u, password |-> "hash",
                               avatar |-> <<>>, bio |-> "-"]]
  /\ videos = <<>>
  /\ nextVideoId = 1
  /\ likes = EmptyTable
  /\ dislikes = EmptyTable
  /\ watchlist = EmptyTable
  /\ comments = <<>>
  /\ nextCommentId = 1
  /\ files = {}
  /\ nextUpload = 1
  /\ reqs = [r \in Slots |-> Idle]
  /\ resp = NoResp

\* ---------------------------------------------------------------- helpers
RECURSIVE SumOver(_, _)
SumOver(f, S) ==
  IF S = {} THEN 0
  ELSE LET x == CHOOSE y \in S : TRUE IN f[x] + SumOver(f, S \ {x})

\* select count(*) from <table> where video_id = v
RowCount(table, v) == SumOver(table, {k \in Keys : k[2] = v})

\* req.isAuthenticated()
NoSessionCheck(u) == TRUE
IsAuthenticated(u) == u # Anon

\* isNaN(parseInt(...))
IsNaN(v) == v = NaN

\* storage.getVideo(id): the row, if there is one
HasVideo(v) == v \in DOMAIN videos

Key(r) == <<reqs[r].user, reqs[r].vid>>

\* res.status(s).json(...): the handler of slot r ends
Reply(r, status, row, via) ==
  resp' = [route |-> reqs[r].route, user |-> reqs[r].user, vid |-> reqs[r].vid,
           status |-> status, row |-> row, via |-> via]

\* a handler that answers before its first storage call resolves
ReplyAtOnce(route, u, v, status) ==
  /\ resp' = [route |-> route, user |-> u, vid |-> v, status |-> status,
              row |-> <<>>, via |-> ""]
  /\ UNCHANGED reqs

Finish(r, status, row) ==
  /\ Reply(r, status, row, "")
  /\ reqs' = [reqs EXCEPT ![r] = Idle]

\* `return existing[0]`, then the route's res.status(201).json(row)
FinishExisting(r, row) ==
  /\ Reply(r, 201, row, "existing")
  /\ reqs' = [reqs EXCEPT ![r] = Idle]

\* the awaited call rejects: the handler's catch answers 500
Unanswered(r, via) ==
  /\ resp' = NoResp
  /\ reqs' = [reqs EXCEPT ![r] = Idle]
Fail(r, via) ==
  /\ Reply(r, 500, <<>>, via)
  /\ reqs' = [reqs EXCEPT ![r] = Idle]

Enter(r, route, u, v, pc) ==
  /\ reqs' = [reqs EXCEPT ![r] = [Idle EXCEPT !.route = route, !.user = u,
                                              !.vid = v, !.pc = pc]]
  /\ resp' = NoResp

Goto(r, pc) ==
  /\ reqs' = [reqs EXCEPT ![r].pc = pc]
  /\ resp' = NoResp

\* a request is given the lowest free slot (which slot it gets is immaterial)
Free(r) == reqs[r].pc = "idle" /\ \A q \in 1..(r - 1) : reqs[q].pc # "idle"

DbUnchanged ==
  UNCHANGED <<users, videos, nextVideoId, likes, dislikes, watchlist, comments,
              nextCommentId>>
FsUnchanged == UNCHANGED <<files, nextUpload>>

\* ------------------------------------------------- row locks of open transactions
Table(route) == IF route \in LikeRoutes THEN likes ELSE dislikes

SetTable(route, t) ==
  IF route \in LikeRoutes THEN likes' = t /\ UNCHANGED dislikes
  ELSE dislikes' = t /\ UNCHANGED likes

Counter(route) == IF route \in LikeRoutes THEN "likes" ELSE "dislikes"

SameTable(a, b) == (a \in LikeRoutes) = (b \in LikeRoutes)

\* another open transaction has inserted or deleted the row with r's key and not
\* yet ended: the statement of r on that key waits for it
KeyLockedByOther(r) ==
  \E q \in Slots \ {r} :
    /\ reqs[q].rowOp # "none"
    /\ SameTable(reqs[q].route, reqs[r].route)
    /\ Key(q) = Key(r)

\* an open transaction has updated the videos row v and not yet ended
VideoLocked(v) == \E q \in Slots : reqs[q].locked /\ reqs[q].vid = v

\* primaryKey({ columns: [table.userId, table.videoId] })
NoPrimaryKey(table, key) == FALSE
UniqueViolation(table, key) == table[key] > 0

\* ------------------------------------------- POST /api/likes, POST /api/dislikes
PostReaction(r, route, u, v) ==
  /\ Free(r)
  /\ route \in InsertRoutes
  /\ DbUnchanged /\ FsUnchanged
  /\ IF ~IsAuthenticated(u) THEN ReplyAtOnce(route, u, v, 401)
     ELSE IF IsNaN(v) THEN ReplyAtOnce(route, u, v, 400)
     ELSE IF ~HasVideo(v) THEN ReplyAtOnce(route, u, v, 404)
     ELSE Enter(r, route, u, v, "check")

\* likeVideo / dislikeVideo: "Check if already liked"
NoneExisting(table, key) == FALSE
Existing(table, key) == table[key] > 0

ReactionCheck(r) ==
  /\ reqs[r].pc = "check"
  /\ reqs[r].route \in InsertRoutes
  /\ DbUnchanged /\ FsUnchanged
  /\ IF Existing(Table(reqs[r].route), Key(r))
     THEN FinishExisting(r, Key(r))
     ELSE Goto(r, "insert")

\* tx.insert(likes).values({userId, videoId}): the row is written inside the
\* transaction and becomes visible at COMMIT
InsertAutocommit(r) ==
  /\ SetTable(reqs[r].route,
              [Table(reqs[r].route) EXCEPT ![Key(r)] = @ + 1])
  /\ Goto(r, "update")
  /\ UNCHANGED <<comments, nextCommentId, users, videos, nextVideoId, watchlist>>
InsertRow(r) ==
  /\ reqs' = [reqs EXCEPT ![r].rowOp = "ins", ![r].pc = "update"]
  /\ resp' = NoResp
  /\ DbUnchanged

ReactionInsert(r) ==
  /\ reqs[r].pc = "insert"
  /\ ~KeyLockedByOther(r)
  /\ reqs[r].rowOp = "none"
  /\ FsUnchanged
  /\ IF UniqueViolation(Table(reqs[r].route), Key(r))
     THEN /\ Fail(r, "unique_violation")    \* the transaction rolls back
          /\ DbUnchanged
     ELSE InsertRow(r)

\* ------------------------------- DELETE /api/likes/:videoId, /api/dislikes/:videoId
DeleteReaction(r, route, u, v) ==
  /\ Free(r)
  /\ route \in ReactionRoutes \ InsertRoutes
  /\ DbUnchanged /\ FsUnchanged
  /\ IF ~IsAuthenticated(u) THEN ReplyAtOnce(route, u, v, 401)
     ELSE IF IsNaN(v) THEN ReplyAtOnce(route, u, v, 400)
     ELSE Enter(r, route, u, v, "delete")

\* "Update video likes count if a like was removed"
AfterDeleteAlways(n) == "update"
AfterDelete(n) == IF n > 0 THEN "update" ELSE "commit"

\* tx.delete(likes).where(userId = u and videoId = v).returning()
ReactionDelete(r) ==
  /\ reqs[r].pc = "delete"
  /\ ~KeyLockedByOther(r)
  /\ DbUnchanged /\ FsUnchanged
  /\ LET n == Table(reqs[r].route)[Key(r)] IN
     reqs' = [reqs EXCEPT ![r].rowOp = IF n > 0 THEN "del" ELSE "none",
                          ![r].pc = AfterDelete(n)]
  /\ resp' = NoResp

\* tx.update(videos).set({likes: sql`likes + 1`}).where(id = videoId): takes the
\* row lock; no row matches when the video is gone
ReactionUpdate(r) ==
  /\ reqs[r].pc = "update"
  /\ ~VideoLocked(reqs[r].vid)
  /\ DbUnchanged /\ FsUnchanged
  /\ reqs' = [reqs EXCEPT
       ![r].pc = "commit",
       ![r].locked = HasVideo(reqs[r].vid),
       ![r].delta = IF ~HasVideo(reqs[r].vid) THEN 0
                    ELSE IF reqs[r].route \in InsertRoutes THEN 1 ELSE -1]
  /\ resp' = NoResp

\* the rows of the table once the transaction's insert / delete is committed
Committed(table, key, rowOp) ==
  CASE rowOp = "ins" -> [table EXCEPT ![key] = @ + 1]
    [] rowOp = "del" -> [table EXCEPT ![key] = 0]
    [] OTHER -> table

\* unlikeVideo / undislikeVideo: return deleteResult.length > 0
AlwaysUnliked(rowOp) == TRUE
Unliked(rowOp) == rowOp = "del"

\* COMMIT of db.transaction, then the route's answer
ReactionCommit(r) ==
  /\ reqs[r].pc = "commit"
  /\ reqs[r].route \in ReactionRoutes
  /\ LET q == reqs[r] IN
     /\ SetTable(q.route, Committed(Table(q.route), Key(r), q.rowOp))
     /\ videos' = IF q.locked
                  THEN [videos EXCEPT ![q.vid][Counter(q.route)] = @ + q.delta]
                  ELSE videos
     /\ IF q.route \in InsertRoutes THEN Finish(r, 201, Key(r))
        ELSE IF Unliked(q.rowOp) THEN Finish(r, 200, <<>>)
        ELSE Finish(r, 404, <<>>)
  /\ UNCHANGED <<comments, nextCommentId, users, nextVideoId, watchlist>>
  /\ FsUnchanged

\* a storage call (or fs.unlinkSync) throws: an open transaction rolls back, the
\* handler's catch answers 500
Throw(r) ==
  /\ reqs[r].pc # "idle"
  /\ Fail(r, IF reqs[r].rowOp # "none" THEN "rollback" ELSE "throw")
  /\ DbUnchanged /\ FsUnchanged

\* ------------------------------------------------------------ POST /api/videos
VideoFiles(n) == {<<"video", n>>, <<"thumb", n>>}

\* videoData = {...req.body, userId: req.user!.id, ...}
BodyUserId(bodyUserId, u) == bodyUserId
VideoDataUserId(bodyUserId, u) == u

\* requireAuth, then multer stores the two files under fresh names, then the
\* handler validates and calls storage.createVideo
PostVideos(r, u, hasFiles, valid, bodyUserId) ==
  /\ Free(r)
  /\ nextUpload <= MaxVideos
  /\ DbUnchanged
  /\ IF ~IsAuthenticated(u)
     THEN ReplyAtOnce("POST /api/videos", u, 0, 401) /\ FsUnchanged
     ELSE IF ~hasFiles
     THEN ReplyAtOnce("POST /api/videos", u, 0, 400) /\ FsUnchanged
     ELSE /\ files' = files \cup VideoFiles(nextUpload)
          /\ nextUpload' = nextUpload + 1
          /\ IF ~valid THEN ReplyAtOnce("POST /api/videos", u, 0, 400)
             ELSE /\ reqs' = [reqs EXCEPT ![r] =
                       [Idle EXCEPT !.route = "POST /api/videos", !.user = u,
                                    !.pc = "createVideo", !.vfile = nextUpload,
                                    !.owner = VideoDataUserId(bodyUserId, u)]]
                  /\ resp' = NoResp

\* storage.createVideo: insert with views, likes, dislikes = 0
CreateVideo(r) ==
  /\ reqs[r].pc = "createVideo"
  /\ videos' = videos @@ (nextVideoId :>
        [id |-> nextVideoId, userId |-> reqs[r].owner,
         views |-> 0, likes |-> 0, dislikes |-> 0,
         videoUrl |-> <<"video", reqs[r].vfile>>,
         thumbnail |-> <<"thumb", reqs[r].vfile>>,
         title |-> "t", description |-> "d", category |-> "c",
         featured |-> FALSE])
  /\ nextVideoId' = nextVideoId + 1
  /\ Finish(r, 201, <<nextVideoId>>)
  /\ UNCHANGED <<comments, nextCommentId, users, likes, dislikes, watchlist>>
  /\ FsUnchanged

\* ------------------------------------------------------ DELETE /api/videos/:id
\* "Allow admin (user ID 1) to delete any video, otherwise only the owner"
AnyoneMayDelete(u, video) == TRUE
MayDelete(u, video) == u = Admin \/ video.userId = u

DeleteVideoRoute(r, u, v) ==
  /\ Free(r)
  /\ DbUnchanged /\ FsUnchanged
  /\ LET route == "DELETE /api/videos/:id" IN
     IF ~IsAuthenticated(u) THEN ReplyAtOnce(route, u, v, 401)
     ELSE IF ~HasVideo(v) THEN ReplyAtOnce(route, u, v, 404)
     ELSE IF ~MayDelete(u, videos[v]) THEN ReplyAtOnce(route, u, v, 403)
     ELSE /\ reqs' = [reqs EXCEPT ![r] =
               [Idle EXCEPT !.route = route, !.user = u, !.vid = v,
                            !.pc = "unlink", !.vfile = videos[v].videoUrl[2],
                            !.owner = videos[v].userId]]
          /\ resp' = NoResp

\* --------------------------------------------- DELETE /api/moderation/videos/:id
\* "only Gorilla Tag Dev (user ID 1) can terminate videos"
EveryoneIsAdmin(u) == TRUE
IsAdmin(u) == u = Admin

ModerateVideo(r, u, v) ==
  /\ Free(r)
  /\ DbUnchanged /\ FsUnchanged
  /\ LET route == "DELETE /api/moderation/videos/:id" IN
     IF ~IsAuthenticated(u) THEN ReplyAtOnce(route, u, v, 401)
     ELSE IF ~IsAdmin(u) THEN ReplyAtOnce(route, u, v, 403)
     ELSE IF ~HasVideo(v) THEN ReplyAtOnce(route, u, v, 404)
     ELSE /\ reqs' = [reqs EXCEPT ![r] =
               [Idle EXCEPT !.route = route, !.user = u, !.vid = v,
                            !.pc = "unlink", !.vfile = videos[v].videoUrl[2],
                            !.owner = videos[v].userId]]
          /\ resp' = NoResp

\* fs.unlinkSync of the video and thumbnail files that exist
Unlink(r) ==
  /\ reqs[r].pc = "unlink"
  /\ files' = files \ VideoFiles(reqs[r].vfile)
  /\ UNCHANGED nextUpload
  /\ Goto(r, "deleteVideo")
  /\ DbUnchanged

\* storage.deleteVideo(id), then res.json({success: true})
DeleteVideo(r) ==
  /\ reqs[r].pc = "deleteVideo"
  /\ ~VideoLocked(reqs[r].vid)
  /\ videos' = [x \in DOMAIN videos \ {reqs[r].vid} |-> videos[x]]
  /\ Finish(r, 200, <<>>)
  /\ UNCHANGED <<comments, nextCommentId, users, nextVideoId, likes, dislikes, watchlist>>
  /\ FsUnchanged

\* ------------------------------------------------------------ POST /api/watchlist
PostWatchlist(r, u, v) ==
  /\ Free(r)
  /\ DbUnchanged /\ FsUnchanged
  /\ LET route == "POST /api/watchlist" IN
     IF ~IsAuthenticated(u) THEN ReplyAtOnce(route, u, v, 401)
     ELSE IF IsNaN(v) THEN ReplyAtOnce(route, u, v, 400)
     ELSE IF ~HasVideo(v) THEN ReplyAtOnce(route, u, v, 404)
     ELSE Enter(r, route, u, v, "wlCheck")

\* addToWatchlist: "Check if already in watchlist"
AddToWatchlistCheck(r) ==
  /\ reqs[r].pc = "wlCheck"
  /\ DbUnchanged /\ FsUnchanged
  /\ IF Existing(watchlist, Key(r))
     THEN FinishExisting(r, Key(r))
     ELSE Goto(r, "wlInsert")

\* addToWatchlist: db.insert(watchlist).values(item); the table's only key is its
\* serial id, so the insert always succeeds
AddToWatchlistInsert(r) ==
  /\ reqs[r].pc = "wlInsert"
  /\ watchlist[Key(r)] < MaxRows
  /\ watchlist' = [watchlist EXCEPT ![Key(r)] = @ + 1]
  /\ Finish(r, 201, Key(r))
  /\ UNCHANGED <<comments, nextCommentId, users, videos, nextVideoId, likes, dislikes>>
  /\ FsUnchanged

\* ------------------------------------------------- DELETE /api/watchlist/:videoId
DeleteWatchlist(r, u, v) ==
  /\ Free(r)
  /\ DbUnchanged /\ FsUnchanged
  /\ LET route == "DELETE /api/watchlist/:videoId" IN
     IF ~IsAuthenticated(u) THEN ReplyAtOnce(route, u, v, 401)
     ELSE IF IsNaN(v) THEN ReplyAtOnce(route, u, v, 400)
     ELSE Enter(r, route, u, v, "wlDelete")

\* removeFromWatchlist: delete every row of the pair; false when there was none
RemoveFromWatchlist(r) ==
  /\ reqs[r].pc = "wlDelete"
  /\ watchlist' = [watchlist EXCEPT ![Key(r)] = 0]
  /\ IF watchlist[Key(r)] > 0 THEN Finish(r, 200, <<>>) ELSE Finish(r, 404, <<>>)
  /\ UNCHANGED <<comments, nextCommentId, users, videos, nextVideoId, likes, dislikes>>
  /\ FsUnchanged

\* ------------------------------------------------------------- PUT /api/users/:id
\* a JavaScript value in a condition: "" and null are falsy
Truthy(x) == x \notin {"", "NULL"}

\* "Don't update password through this endpoint for security":
\* if (updateData.password) { delete updateData.password; }
StripPassword(body) ==
  IF "password" \in DOMAIN body /\ Truthy(body.password)
  THEN [f \in DOMAIN body \ {"password"} |-> body[f]]
  ELSE body

\* req.user!.id !== id
AnyUser(u, id) == TRUE
SameUser(u, id) == u = id

PutUser(r, u, id, body) ==
  /\ Free(r)
  /\ DbUnchanged /\ FsUnchanged
  /\ LET route == "PUT /api/users/:id" IN
     IF ~IsAuthenticated(u) THEN ReplyAtOnce(route, u, id, 401)
     ELSE IF ~SameUser(u, id) THEN ReplyAtOnce(route, u, id, 403)
     ELSE IF id \notin DOMAIN users THEN ReplyAtOnce(route, u, id, 404)
     ELSE /\ reqs' = [reqs EXCEPT ![r] =
               [Idle EXCEPT !.route = route, !.user = u, !.vid = id,
                            !.pc = "updateUser", !.body = StripPassword(body)]]
          /\ resp' = NoResp

\* ------------------------------------------------------ POST /api/users/:id/avatar
\* requireAuth, then multer stores the file, then the handler runs
PostAvatar(r, u, id, hasFile) ==
  /\ Free(r)
  /\ nextUpload <= MaxVideos
  /\ DbUnchanged
  /\ LET route == "POST /api/users/:id/avatar" IN
     IF ~IsAuthenticated(u) THEN ReplyAtOnce(route, u, id, 401) /\ FsUnchanged
     ELSE /\ IF hasFile
             THEN /\ files' = files \cup {<<"avatar", nextUpload>>}
                  /\ nextUpload' = nextUpload + 1
             ELSE FsUnchanged
          /\ IF ~SameUser(u, id) THEN ReplyAtOnce(route, u, id, 403)
             ELSE IF id \notin DOMAIN users THEN ReplyAtOnce(route, u, id, 404)
             ELSE IF ~hasFile THEN ReplyAtOnce(route, u, id, 400)
             ELSE /\ reqs' = [reqs EXCEPT ![r] =
                       [Idle EXCEPT !.route = route, !.user = u, !.vid = id,
                                    !.pc = "updateUser",
                                    !.body = [username |-> users[id].username,
                                              avatar |-> <<"avatar", nextUpload>>]]]
                  /\ resp' = NoResp

\* users.username is unique, users.password is not null
UserConstraintViolated(id, set) ==
  \/ "password" \in DOMAIN set /\ set.password = "NULL"
  \/ /\ "username" \in DOMAIN set
     /\ \E o \in DOMAIN users \ {id} : users[o].username = set.username

\* storage.updateUser: db.update(users).set(updates).where(id = id)
UpdateUser(r) ==
  /\ reqs[r].pc = "updateUser"
  /\ FsUnchanged
  /\ UNCHANGED <<videos, nextVideoId, likes, dislikes, watchlist, comments,
                 nextCommentId>>
  /\ LET id == reqs[r].vid
         set == reqs[r].body
     IN IF DOMAIN set = {} \/ UserConstraintViolated(id, set)
        THEN Fail(r, "throw") /\ UNCHANGED users
        ELSE IF id \notin DOMAIN users
        THEN /\ Finish(r, IF reqs[r].route = "PUT /api/users/:id" THEN 404 ELSE 500, <<>>)
             /\ UNCHANGED users
        ELSE /\ users' = [users EXCEPT ![id] =
                  [f \in DOMAIN users[id] |->
                     IF f \in DOMAIN set THEN set[f] ELSE users[id][f]]]
             /\ Finish(r, 200, <<>>)

\* ------------------------------------------------ POST /api/videos/:videoId/comments
\* insertCommentSchema / updateCommentSchema: content is a string
ValidContent(c) == c # "NULL"

PostComment(r, u, v, content) ==
  /\ Free(r)
  /\ DbUnchanged /\ FsUnchanged
  /\ LET route == "POST /api/videos/:videoId/comments" IN
     IF ~IsAuthenticated(u) THEN ReplyAtOnce(route, u, v, 401)
     ELSE IF IsNaN(v) THEN ReplyAtOnce(route, u, v, 400)
     ELSE IF ~HasVideo(v) THEN ReplyAtOnce(route, u, v, 404)
     ELSE IF ~ValidContent(content) THEN ReplyAtOnce(route, u, v, 400)
     ELSE /\ reqs' = [reqs EXCEPT ![r] =
               [Idle EXCEPT !.route = route, !.user = u, !.vid = v,
                            !.pc = "createComment", !.body = [content |-> content]]]
          /\ resp' = NoResp

\* storage.createComment
CreateComment(r) ==
  /\ reqs[r].pc = "createComment"
  /\ nextCommentId <= MaxComments
  /\ comments' = comments @@ (nextCommentId :>
        [content |-> reqs[r].body.content, userId |-> reqs[r].user,
         videoId |-> reqs[r].vid])
  /\ nextCommentId' = nextCommentId + 1
  /\ reqs' = [reqs EXCEPT ![r].pc = "getVideoComments", ![r].cid = nextCommentId]
  /\ resp' = NoResp
  /\ UNCHANGED <<users, videos, nextVideoId, likes, dislikes, watchlist>>
  /\ FsUnchanged

\* storage.getVideoComments, comments.find(c => c.id === newComment.id), 201
GetVideoComments(r) ==
  /\ reqs[r].pc = "getVideoComments"
  /\ DbUnchanged /\ FsUnchanged
  /\ Finish(r, 201, IF reqs[r].cid \in DOMAIN comments THEN <<reqs[r].cid>> ELSE <<>>)

\* ------------------------------------- PUT /api/comments/:id, DELETE /api/comments/:id
PutComment(r, u, id, content) ==
  /\ Free(r)
  /\ DbUnchanged /\ FsUnchanged
  /\ LET route == "PUT /api/comments/:id" IN
     IF ~IsAuthenticated(u) THEN ReplyAtOnce(route, u, id, 401)
     ELSE IF IsNaN(id) THEN ReplyAtOnce(route, u, id, 400)
     ELSE IF ~ValidContent(content) THEN ReplyAtOnce(route, u, id, 400)
     ELSE /\ reqs' = [reqs EXCEPT ![r] =
               [Idle EXCEPT !.route = route, !.user = u, !.vid = id, !.cid = id,
                            !.pc = "updateComment", !.body = [content |-> content]]]
          /\ resp' = NoResp

DeleteCommentRoute(r, u, id) ==
  /\ Free(r)
  /\ DbUnchanged /\ FsUnchanged
  /\ LET route == "DELETE /api/comments/:id" IN
     IF ~IsAuthenticated(u) THEN ReplyAtOnce(route, u, id, 401)
     ELSE IF IsNaN(id) THEN ReplyAtOnce(route, u, id, 400)
     ELSE /\ reqs' = [reqs EXCEPT ![r] =
               [Idle EXCEPT !.route = route, !.user = u, !.vid = id, !.cid = id,
                            !.pc = "deleteComment"]]
          /\ resp' = NoResp

\* where(and(eq(comments.id, id), eq(comments.userId, userId)))
AnyComment(id, u) == id \in DOMAIN comments
OwnComment(id, u) == id \in DOMAIN comments /\ comments[id].userId = u

\* storage.updateComment: "Only allow users to update their own comments"
UpdateComment(r) ==
  /\ reqs[r].pc = "updateComment"
  /\ FsUnchanged
  /\ UNCHANGED <<users, videos, nextVideoId, likes, dislikes, watchlist, nextCommentId>>
  /\ IF OwnComment(reqs[r].cid, reqs[r].user)
     THEN /\ comments' = [comments EXCEPT ![reqs[r].cid].content = reqs[r].body.content]
          /\ Finish(r, 200, <<reqs[r].cid>>)
     ELSE /\ UNCHANGED comments
          /\ Finish(r, 404, <<>>)

\* storage.deleteComment: "Only allow users to delete their own comments"
DeleteComment(r) ==
  /\ reqs[r].pc = "deleteComment"
  /\ FsUnchanged
  /\ UNCHANGED <<users, videos, nextVideoId, likes, dislikes, watchlist, nextCommentId>>
  /\ IF OwnComment(reqs[r].cid, reqs[r].user)
     THEN /\ comments' = [x \in DOMAIN comments \ {reqs[r].cid} |-> comments[x]]
          /\ Finish(r, 200, <<>>)
     ELSE /\ UNCHANGED comments
          /\ Finish(r, 404, <<>>)

\* ------------------------------------------------- the GET routes behind requireAuth
AuthGetRoutes == {"GET /api/watchlist", "GET /api/watchlist/check/:videoId",
                  "GET /api/likes/check/:videoId", "GET /api/dislikes/check/:videoId"}

\* one select, then res.json
AuthGet(route, u, v) ==
  /\ route \in AuthGetRoutes
  /\ DbUnchanged /\ FsUnchanged
  /\ IF ~IsAuthenticated(u) THEN ReplyAtOnce(route, u, v, 401)
     ELSE IF route # "GET /api/watchlist" /\ IsNaN(v) THEN ReplyAtOnce(route, u, v, 400)
     ELSE ReplyAtOnce(route, u, v, 200)

\* ------------------------------------------------ likes and dislikes, concurrent
VidInputs == VideoIds \cup {NaN}

\* Overlapping reactions: two users (the administrator among them) and the first
\* upload; the rows and the counter of one video are touched by no request for
\* another.
Actors == {Admin, Admin + 1}

NextReactions ==
  \E r \in Slots :
    \/ \E route \in InsertRoutes, u \in Actors :
         PostReaction(r, route, u, 1)
    \/ \E route \in ReactionRoutes \ InsertRoutes, u \in Actors :
         DeleteReaction(r, route, u, 1)
    \/ ReactionCheck(r)
    \/ ReactionInsert(r)
    \/ ReactionDelete(r)
    \/ ReactionUpdate(r)
    \/ ReactionCommit(r)
    \/ Throw(r)
    \/ nextUpload = 1 /\ PostVideos(r, Admin, TRUE, TRUE, Admin)
    \/ CreateVideo(r)
    \/ DeleteVideoRoute(r, Admin, 1)
    \/ Unlink(r)
    \/ DeleteVideo(r)

SpecReactions == Init /\ [][NextReactions]_vars

\* --------------------------------------------- watchlist requests, overlapping
NextWatchlist ==
  \E r \in Slots :
    \/ \E u \in Actors : PostWatchlist(r, u, 1)
    \/ AddToWatchlistCheck(r)
    \/ AddToWatchlistInsert(r)
    \/ \E u \in Actors : DeleteWatchlist(r, u, 1)
    \/ RemoveFromWatchlist(r)
    \/ nextUpload = 1 /\ PostVideos(r, Admin, TRUE, TRUE, Admin)
    \/ CreateVideo(r)
    \/ Throw(r)

SpecWatchlist == Init /\ [][NextWatchlist]_vars

\* ------------------- likeVideo, dislikeVideo, addToWatchlist, one call at a time
NextSequential ==
  \/ \E route \in InsertRoutes, v \in VidInputs : PostReaction(1, route, Admin + 1, v)
  \/ ReactionCheck(1)
  \/ ReactionInsert(1)
  \/ ReactionUpdate(1)
  \/ ReactionCommit(1)
  \/ \E v \in VidInputs : PostWatchlist(1, Admin + 1, v)
  \/ AddToWatchlistCheck(1)
  \/ AddToWatchlistInsert(1)
  \/ PostVideos(1, Admin, TRUE, TRUE, Admin)
  \/ CreateVideo(1)
  \/ Throw(1)

SpecSequential == Init /\ [][NextSequential]_vars

\* ------------------------------ uploads and moderation by any user, overlapping
NextModeration ==
  \E r \in Slots :
    \/ \E u \in Users, b \in Users : PostVideos(r, u, TRUE, TRUE, b)
    \/ CreateVideo(r)
    \/ \E u \in Users, v \in VideoIds : ModerateVideo(r, u, v)
    \/ Unlink(r)
    \/ DeleteVideo(r)
    \/ Throw(r)

SpecModeration == Init /\ [][NextModeration]_vars

\* ----------------------- uploads and DELETE /api/videos/:id by any user, overlapping
NextDeleteVideo ==
  \E r \in Slots :
    \/ \E u \in Users, b \in Users : PostVideos(r, u, TRUE, TRUE, b)
    \/ CreateVideo(r)
    \/ \E u \in Users, v \in VideoIds : DeleteVideoRoute(r, u, v)
    \/ Unlink(r)
    \/ DeleteVideo(r)
    \/ Throw(r)

SpecDeleteVideo == Init /\ [][NextDeleteVideo]_vars

\* ------------------------------------------------ profile updates, overlapping
PutBodies == {[bio |-> "b"], [password |-> ""], [password |-> "NULL"],
              [password |-> "pw2", bio |-> "b"], [username |-> Admin],
              [password |-> "pw2"]}

NextUsers ==
  \E r \in Slots :
    \/ \E u \in Actors, id \in Actors, body \in PutBodies : PutUser(r, u, id, body)
    \/ \E u \in Actors, id \in Actors, hasFile \in BOOLEAN : PostAvatar(r, u, id, hasFile)
    \/ UpdateUser(r)
    \/ Throw(r)

SpecUsers == Init /\ [][NextUsers]_vars

\* ------- every route behind requireAuth without a session, amid the uploads, likes,
\* watchlist changes and comments of one signed-in user; one request at a time
NextAuth ==
  \/ \E route \in InsertRoutes, v \in VidInputs : PostReaction(1, route, Anon, v)
  \/ \E route \in ReactionRoutes \ InsertRoutes, v \in VidInputs :
       DeleteReaction(1, route, Anon, v)
  \/ \E v \in VidInputs : PostWatchlist(1, Anon, v)
  \/ \E v \in VidInputs : DeleteWatchlist(1, Anon, v)
  \/ \E hasFiles \in BOOLEAN, valid \in BOOLEAN, b \in Users :
       PostVideos(1, Anon, hasFiles, valid, b)
  \/ \E v \in VidInputs : DeleteVideoRoute(1, Anon, v)
  \/ \E v \in VidInputs : ModerateVideo(1, Anon, v)
  \/ \E id \in Users, body \in PutBodies : PutUser(1, Anon, id, body)
  \/ \E id \in Users, hasFile \in BOOLEAN : PostAvatar(1, Anon, id, hasFile)
  \/ \E v \in VidInputs, content \in {"a", "NULL"} : PostComment(1, Anon, v, content)
  \/ \E id \in VidInputs, content \in {"b", "NULL"} : PutComment(1, Anon, id, content)
  \/ \E id \in VidInputs : DeleteCommentRoute(1, Anon, id)
  \/ \E route \in AuthGetRoutes, v \in VidInputs, u \in {Anon, Admin} : AuthGet(route, u, v)
  \/ nextUpload = 1 /\ PostVideos(1, Admin, TRUE, TRUE, Admin)
  \/ CreateVideo(1)
  \/ PostReaction(1, "POST /api/likes", Admin, 1)
  \/ ReactionCheck(1)
  \/ ReactionInsert(1)
  \/ ReactionUpdate(1)
  \/ ReactionCommit(1)
  \/ PostWatchlist(1, Admin, 1)
  \/ AddToWatchlistCheck(1)
  \/ AddToWatchlistInsert(1)
  \/ DeleteWatchlist(1, Admin, 1)
  \/ RemoveFromWatchlist(1)
  \/ PostComment(1, Admin, 1, "a")
  \/ CreateComment(1)
  \/ GetVideoComments(1)
  \/ Throw(1)

SpecAuth == Init /\ [][NextAuth]_vars

\* ------------------------------------------------------------------ claims
Quiet == \A r \in Slots : reqs[r].pc = "idle"

CountersMatch ==
  \A v \in DOMAIN videos :
    /\ videos[v].likes = RowCount(likes, v)
    /\ videos[v].dislikes = RowCount(dislikes, v)

\* C1: once the like / unlike / dislike / undislike calls made so far have all
\* completed, every video's likes column is the number of likes rows with its id
\* and its dislikes column the number of dislikes rows with its id.
C1_CountersMatchRows == Quiet => CountersMatch

C1_Witness ==
  /\ Quiet
  /\ resp.route = "DELETE /api/likes/:videoId" /\ resp.status = 200
  /\ 1 \in DOMAIN videos
  /\ videos[1].likes = 1 /\ videos[1].dislikes = 1

\* the step in which the open transaction of slot r is rolled back
RolledBack(r) ==
  /\ reqs[r].route \in ReactionRoutes
  /\ reqs[r].pc \in {"update", "commit"}
  /\ resp'.status = 500
  /\ reqs'[r].pc = "idle"

\* C2: the row change and the counter update commit together: in every state,
\* whatever requests are in flight, the committed counters equal the committed
\* row counts, and a transaction that fails after its row change leaves the
\* reaction tables and the videos as they were.
C2_TransactionAtomic ==
  /\ []CountersMatch
  /\ [][\A r \in Slots :
          RolledBack(r) => UNCHANGED <<likes, dislikes, videos>>]_vars

C2_Witness ==
  /\ resp.via = "rollback"
  /\ resp.route = "DELETE /api/likes/:videoId"
  /\ likes[<<resp.user, resp.vid>>] = 1
  /\ resp.vid \in DOMAIN videos
  /\ videos[resp.vid].likes = 1

\* slot r passed the "already liked" check and a row for its pair has been
\* committed since: r is the request that loses the insert
LostRace(r) ==
  /\ reqs[r].pc = "insert"
  /\ Table(reqs[r].route)[Key(r)] > 0

\* C3: of two overlapping likeVideo (dislikeVideo) requests for one pair that both
\* passed the existence check, one commits a single row with a single increment;
\* the other fails with 500 and changes no table and no counter.
C3_DuplicateLikeRace ==
  /\ [](\A k \in Keys : likes[k] <= 1 /\ dislikes[k] <= 1)
  /\ []CountersMatch
  /\ [][\A r \in Slots :
          (LostRace(r) /\ reqs'[r] # reqs[r]) =>
             /\ resp'.status = 500
             /\ reqs'[r].pc = "idle"
             /\ UNCHANGED <<likes, dislikes, videos, watchlist>>]_vars

C3_Witness ==
  /\ resp.via = "unique_violation"
  /\ resp.route = "POST /api/dislikes"
  /\ dislikes[<<resp.user, resp.vid>>] = 1
  /\ resp.vid \in DOMAIN videos
  /\ videos[resp.vid].dislikes = 1

\* the storage call of slot r is at its existence check and the pair has a row
SecondCall(r) ==
  /\ reqs[r].pc \in {"check", "wlCheck"}
  /\ (IF reqs[r].pc = "check" THEN Table(reqs[r].route) ELSE watchlist)[Key(r)] > 0

\* C4: likeVideo, dislikeVideo and addToWatchlist called for a pair that already
\* has a row change no table and no counter, and (unless the select itself
\* throws) return the existing row.
C4_SecondCallIdempotent ==
  [][\A r \in Slots :
       (SecondCall(r) /\ reqs'[r] # reqs[r]) =>
          /\ UNCHANGED <<comments, nextCommentId, users, videos, likes, dislikes, watchlist>>
          /\ reqs'[r].pc = "idle"
          /\ \/ resp'.via = "throw"
             \/ /\ resp'.status = 201
                /\ resp'.via = "existing"
                /\ resp'.row = Key(r)]_vars

C4_Witness ==
  /\ resp.via = "existing"
  /\ resp.route = "POST /api/watchlist"
  /\ watchlist[<<resp.user, resp.vid>>] = 1
  /\ likes[<<resp.user, resp.vid>>] = 1
  /\ dislikes[<<resp.user, resp.vid>>] = 1
  /\ videos[resp.vid].likes = 1 /\ videos[resp.vid].dislikes = 1

\* C5: the watchlist table never holds two rows for one (userId, videoId) pair.
C5_WatchlistPairUnique == \A k \in Keys : watchlist[k] <= 1

\* this step sent a response
Replied == resp' # NoResp /\ vars' # vars

ModerationRoute == "DELETE /api/moderation/videos/:id"
DeleteRoute == "DELETE /api/videos/:id"

\* C6: the moderation route lets only user 1 past its check: any other
\* authenticated user is answered 403 with the videos and the files unchanged;
\* user 1 is never answered 403, is answered 404 only for a missing video, and
\* after the 200 answer the video row is gone.
C6_ModerationAdminOnly ==
  /\ [](\A r \in Slots : reqs[r].route = ModerationRoute => reqs[r].user = Admin)
  /\ [](resp.route = ModerationRoute /\ resp.status = 200
          => resp.vid \notin DOMAIN videos)
  /\ [][(Replied /\ resp'.route = ModerationRoute /\ resp'.user # Anon) =>
          IF resp'.user # Admin
          THEN resp'.status = 403 /\ UNCHANGED <<videos, files>>
          ELSE /\ resp'.status \in {200, 404, 500}
               /\ resp'.status = 404 => resp'.vid \notin DOMAIN videos]_vars

C6_Witness ==
  /\ resp.route = ModerationRoute /\ resp.status = 403
  /\ resp.vid \in DOMAIN videos
  /\ VideoFiles(videos[resp.vid].videoUrl[2]) \subseteq files
  /\ 1 \notin DOMAIN videos /\ nextVideoId > 1
  /\ VideoFiles(1) \cap files = {}

\* C7: DELETE /api/videos/:id lets only the video's owner and user 1 past its
\* check: any other authenticated requester of an existing video is answered 403
\* with the videos and the files unchanged.
C7_DeleteOwnerOrAdmin ==
  /\ [](\A r \in Slots : reqs[r].route = DeleteRoute =>
          /\ reqs[r].user = Admin \/ reqs[r].user = reqs[r].owner
          /\ HasVideo(reqs[r].vid) => videos[reqs[r].vid].userId = reqs[r].owner)
  /\ [][(/\ Replied /\ resp'.route = DeleteRoute /\ resp'.user # Anon
         /\ HasVideo(resp'.vid)
         /\ resp'.user # Admin /\ resp'.user # videos[resp'.vid].userId) =>
          resp'.status = 403 /\ UNCHANGED <<videos, files>>]_vars

C7_Witness ==
  /\ resp.route = DeleteRoute /\ resp.status = 403
  /\ resp.vid \in DOMAIN videos
  /\ VideoFiles(videos[resp.vid].videoUrl[2]) \subseteq files
  /\ 1 \notin DOMAIN videos /\ nextVideoId > 1
  /\ VideoFiles(1) \cap files = {}

PutUserRoute == "PUT /api/users/:id"
AvatarRoute == "POST /api/users/:id/avatar"

\* C9: no step of a PUT /api/users/:id handler changes any user's stored password.
C9_PutUserKeepsPassword ==
  [][\A r \in Slots :
       (reqs[r].route = PutUserRoute /\ reqs'[r] # reqs[r]) =>
          \A u \in DOMAIN users : users'[u].password = users[u].password]_vars

\* C10: PUT /api/users/:id and POST /api/users/:id/avatar get past their check
\* only when the authenticated user is :id; any other authenticated user is
\* answered 403 and no user record changes; a user record changes only in a step
\* of such a request for that user's own id.
C10_ProfileOwnerOnly ==
  /\ [](\A r \in Slots : reqs[r].route \in {PutUserRoute, AvatarRoute} =>
          reqs[r].user = reqs[r].vid)
  /\ [][(/\ Replied /\ resp'.route \in {PutUserRoute, AvatarRoute}
         /\ resp'.user # Anon /\ resp'.user # resp'.vid) =>
          resp'.status = 403 /\ UNCHANGED users]_vars
  /\ [][\A id \in DOMAIN users :
          users'[id] # users[id] =>
            \E r \in Slots : /\ reqs[r].route \in {PutUserRoute, AvatarRoute}
                             /\ reqs[r].user = id /\ reqs[r].vid = id
                             /\ reqs'[r].pc = "idle"]_vars

C10_Witness ==
  /\ resp.route = AvatarRoute /\ resp.status = 403
  /\ users[resp.vid].avatar = <<>> /\ users[resp.vid].bio = "-"
  /\ users[resp.user].avatar # <<>> /\ users[resp.user].bio = "b"

\* the routes registered with requireAuth
AuthRoutes ==
  {"POST /api/videos", "DELETE /api/videos/:id", "DELETE /api/moderation/videos/:id",
   "POST /api/users/:id/avatar", "PUT /api/users/:id", "POST /api/watchlist",
   "DELETE /api/watchlist/:videoId", "POST /api/likes", "DELETE /api/likes/:videoId",
   "POST /api/dislikes", "DELETE /api/dislikes/:videoId",
   "POST /api/videos/:videoId/comments", "PUT /api/comments/:id",
   "DELETE /api/comments/:id"} \cup AuthGetRoutes

\* C8: a request without a session to a route behind requireAuth is answered 401
\* at once: it never gets a handler position, and the users, videos, watchlist,
\* likes, dislikes, comments and uploaded files stay as they were.
C8_RequireAuthRejects ==
  /\ [](\A r \in Slots : reqs[r].pc # "idle" =>
          reqs[r].route \in AuthRoutes /\ reqs[r].user # Anon)
  /\ [][(Replied /\ resp'.user = Anon) =>
          /\ resp'.route \in AuthRoutes
          /\ resp'.status = 401
          /\ UNCHANGED <<users, videos, nextVideoId, likes, dislikes, watchlist,
                         comments, nextCommentId, files, nextUpload, reqs>>]_vars

C8_Witness ==
  /\ resp.user = Anon /\ resp.status = 401
  /\ resp.route = "POST /api/videos"
  /\ DOMAIN videos # {} /\ DOMAIN comments # {}
  /\ \E k \in Keys : likes[k] = 1 /\ watchlist[k] = 1

\* ------------------------------------------------------------------ comments
Contents == {"a", "b", "NULL"}
CommentIds == (1..MaxComments) \cup {NaN}

\* One uploaded video; every user (the administrator among them) comments on
\* it, edits and deletes comments by id.
NextComments ==
  \E r \in Slots :
    \/ nextUpload = 1 /\ PostVideos(r, Admin, TRUE, TRUE, Admin)
    \/ CreateVideo(r)
    \/ \E u \in Actors, c \in Contents : PostComment(r, u, 1, c)
    \/ CreateComment(r)
    \/ GetVideoComments(r)
    \/ \E u \in Users, id \in CommentIds, c \in Contents : PutComment(r, u, id, c)
    \/ \E u \in Users, id \in CommentIds : DeleteCommentRoute(r, u, id)
    \/ UpdateComment(r)
    \/ DeleteComment(r)
    \/ Throw(r)

SpecComments == Init /\ [][NextComments]_vars

CommentRoutes == {"PUT /api/comments/:id", "DELETE /api/comments/:id"}

\* updateComment / deleteComment of slot r returns (without throwing) for a
\* comment that exists and belongs to somebody else
ForeignCall(r) ==
  /\ reqs[r].pc \in {"updateComment", "deleteComment"}
  /\ reqs'[r].pc = "idle"
  /\ resp'.via = ""
  /\ reqs[r].cid \in DOMAIN comments
  /\ comments[reqs[r].cid].userId # reqs[r].user

\* comment c is altered or removed by the step
Altered(c) == c \notin DOMAIN comments' \/ comments'[c] # comments[c]

\* C11: updateComment / deleteComment called with a userId that is not the
\* comment's userId change nothing and the route answers 404; a comment is
\* altered or removed only by a step that answers 200 to a PUT or DELETE
\* /api/comments/:id of its author, user 1 having no special right.
C11_CommentAuthorOnly ==
  [][ /\ \A r \in Slots :
           ForeignCall(r) => resp'.status = 404 /\ UNCHANGED comments
      /\ \A c \in DOMAIN comments :
           Altered(c) => /\ resp'.route \in CommentRoutes
                         /\ resp'.status = 200
                         /\ resp'.vid = c
                         /\ resp'.user = comments[c].userId ]_vars

\* the administrator asked to delete somebody else's comment and got 404
C11_Witness ==
  /\ resp.route = "DELETE /api/comments/:id"
  /\ resp.status = 404
  /\ resp.user = Admin
  /\ resp.vid \in DOMAIN comments
  /\ comments[resp.vid].userId # Admin

\* ------------------------------------------------------------ POST /api/users
\* insertUserSchema: username and password are required strings
ValidUser(body) == {"username", "password"} \subseteq DOMAIN body

\* storage.getUserByUsername(name): is there a row
NeverTaken(name) == FALSE
UsernameTaken(name) == \E o \in DOMAIN users : users[o].username = name

PostUsers(r, body) ==
  /\ Free(r)
  /\ DbUnchanged /\ FsUnchanged
  /\ LET route == "POST /api/users" IN
     IF ~ValidUser(body) THEN ReplyAtOnce(route, Anon, 0, 400)
     ELSE /\ reqs' = [reqs EXCEPT ![r] =
               [Idle EXCEPT !.route = route, !.vid = body.username,
                            !.pc = "getUserByUsername", !.body = body]]
          /\ resp' = NoResp

\* const existingUser = await storage.getUserByUsername(req.body.username)
GetUserByUsername(r) ==
  /\ reqs[r].pc = "getUserByUsername"
  /\ DbUnchanged /\ FsUnchanged
  /\ IF UsernameTaken(reqs[r].body.username)
     THEN Finish(r, 409, <<>>)
     ELSE Goto(r, "createUser")

\* storage.createUser: db.insert(users).values(user); users.username is unique
CreateUser(r) ==
  /\ reqs[r].pc = "createUser"
  /\ FsUnchanged
  /\ UNCHANGED <<videos, nextVideoId, likes, dislikes, watchlist, comments,
                 nextCommentId>>
  /\ LET id == Cardinality(DOMAIN users) + 1
         body == reqs[r].body
     IN IF \E o \in DOMAIN users : users[o].username = body.username
        THEN Fail(r, "unique_violation") /\ UNCHANGED users
        ELSE /\ users' = users @@ (id :>
                  [username |-> body.username, password |-> body.password,
                   avatar |-> <<>>, bio |-> "-"])
             /\ Finish(r, 201, <<id>>)

\* the name of an existing user and two that nobody has yet
RegNames == {Admin, NumUsers + 1, NumUsers + 2}
UserBodies == [username : RegNames, password : {"pw"}]
                \cup [username : RegNames] \cup {[password |-> "pw"]}

NextRegister ==
  \E r \in Slots :
    \/ \E body \in UserBodies : PostUsers(r, body)
    \/ GetUserByUsername(r)
    \/ CreateUser(r)
    \/ Throw(r)

SpecRegister == Init /\ [][NextRegister]_vars

\* the select of slot r returns while some user has the requested name
TakenCheck(r) ==
  /\ reqs[r].pc = "getUserByUsername"
  /\ reqs'[r].pc # "getUserByUsername"
  /\ resp'.via = ""
  /\ \E o \in DOMAIN users : users[o].username = reqs[r].vid

\* data that insertUserSchema rejects: a required field is missing
MissingField(body) == "username" \notin DOMAIN body \/ "password" \notin DOMAIN body

\* C12: POST /api/users whose username an existing user has is answered 409 and
\* creates no user; with invalid data it is answered 400 and creates no user;
\* a user row appears only with a 201 and only under a name nobody had.
C12_PostUsersRejects ==
  [][ /\ \A r \in Slots :
           TakenCheck(r) => resp'.status = 409 /\ UNCHANGED users
      /\ \A r \in Slots, body \in UserBodies :
           MissingField(body) /\ PostUsers(r, body)
             => resp'.status = 400 /\ UNCHANGED users
      /\ resp'.route = "POST /api/users" /\ resp'.status \in {400, 409}
           => UNCHANGED users
      /\ users' # users
           => /\ resp'.route = "POST /api/users" /\ resp'.status = 201
              /\ \A o \in DOMAIN users : users'[o] = users[o]
              /\ \A n \in DOMAIN users' \ DOMAIN users :
                   \A o \in DOMAIN users : users[o].username # users'[n].username
    ]_vars

\* a registration under the administrator's name got 409, after another one
\* had created a user
C12_Witness ==
  /\ resp.route = "POST /api/users"
  /\ resp.status = 409
  /\ resp.vid = Admin
  /\ Cardinality(DOMAIN users) > NumUsers

\* ------------------------------------------------------------ GET /api/videos/:id
\* the requests for video v that have not yet run incrementViews
ViewsInFlight(v) ==
  Cardinality({q \in Slots : reqs[q].route = "GET /api/videos/:id" /\ reqs[q].vid = v})

\* no requireAuth: any client
GetVideoRoute(r, v) ==
  /\ Free(r)
  /\ HasVideo(v) => videos[v].views + ViewsInFlight(v) < MaxViews
  /\ DbUnchanged /\ FsUnchanged
  /\ Enter(r, "GET /api/videos/:id", Anon, v, "getVideo")

\* const video = await storage.getVideo(id); if (!video) return 404
GetVideo(r) ==
  /\ reqs[r].pc = "getVideo"
  /\ DbUnchanged /\ FsUnchanged
  /\ IF ~HasVideo(reqs[r].vid) THEN Finish(r, 404, <<>>)
     ELSE /\ reqs' = [reqs EXCEPT ![r].pc = "incrementViews",
                                  ![r].views = videos[reqs[r].vid].views]
          /\ resp' = NoResp

\* set({ views: sql`views + 1` }): the database adds to the value the row has
\* when the statement runs
ViewsReadEarlier(r) == reqs[r].views + 1
ViewsPlusOne(r) == videos[reqs[r].vid].views + 1

\* await storage.incrementViews(id), then res.json(video) with the row as read
\* before; the update matches no row when the video is gone
IncrementViews(r) ==
  /\ reqs[r].pc = "incrementViews"
  /\ ~VideoLocked(reqs[r].vid)
  /\ videos' = IF HasVideo(reqs[r].vid)
               THEN [videos EXCEPT ![reqs[r].vid].views = ViewsPlusOne(r)]
               ELSE videos
  /\ Finish(r, 200, <<reqs[r].vid, reqs[r].views>>)
  /\ UNCHANGED <<users, nextVideoId, likes, dislikes, watchlist, comments,
                 nextCommentId>>
  /\ FsUnchanged

\* Overlapping views of the first upload and of an id that has no row, amid
\* its uploader's deletion of it.
NextViews ==
  \E r \in Slots :
    \/ nextUpload = 1 /\ PostVideos(r, Admin, TRUE, TRUE, Admin)
    \/ CreateVideo(r)
    \/ \E v \in VideoIds : GetVideoRoute(r, v)
    \/ GetVideo(r)
    \/ IncrementViews(r)
    \/ DeleteVideoRoute(r, Admin, 1)
    \/ Unlink(r)
    \/ DeleteVideo(r)
    \/ Throw(r)

SpecViews == Init /\ [][NextViews]_vars

ViewRoute == "GET /api/videos/:id"

\* the step answers 200 to a GET /api/videos/:id for a video that has a row
Viewed(v) ==
  /\ Replied
  /\ resp'.route = ViewRoute /\ resp'.status = 200 /\ resp'.vid = v

\* C16: each successful GET /api/videos/:id raises the views of its video by
\* exactly 1 on top of whatever the counter holds at that moment, and no other
\* step changes a views counter, so N successful requests raise it by N in any
\* interleaving; a request for a missing id is answered 404 and changes no
\* counter.
C16_ViewsCountRequests ==
  [][ /\ \A v \in DOMAIN videos :
           /\ Viewed(v) => v \in DOMAIN videos' /\ videos'[v].views = videos[v].views + 1
           /\ ~Viewed(v) /\ v \in DOMAIN videos' => videos'[v].views = videos[v].views
      /\ Replied /\ resp'.route = ViewRoute /\ resp'.status = 404
           => /\ UNCHANGED videos
              /\ \E r \in Slots : reqs[r].pc = "getVideo" /\ ~HasVideo(reqs[r].vid)
    ]_vars

\* two requests read views = 0 before either incremented; both answered, the
\* counter stands at 2
C16_Witness ==
  /\ resp.route = ViewRoute
  /\ resp.status = 200
  /\ resp.row = <<1, 0>>
  /\ HasVideo(1)
  /\ videos[1].views = 2

\* ------------------------------------------- every handler answers its request
\* the awaited storage call of slot r resolves and the handler runs on to its
\* next await or to its response
Step(r) ==
  \/ CreateVideo(r)
  \/ GetVideo(r)
  \/ IncrementViews(r)
  \/ CreateComment(r)
  \/ GetVideoComments(r)
  \/ ReactionCheck(r)
  \/ ReactionInsert(r)
  \/ ReactionDelete(r)
  \/ ReactionUpdate(r)
  \/ ReactionCommit(r)

CommentsInFlight == Cardinality({q \in Slots : reqs[q].pc = "createComment"})

\* Uploads, views, comments, likes and unlikes of two users, overlapping; any
\* awaited call may throw.
NextAnswers ==
  \E r \in Slots :
    \/ nextUpload = 1 /\ PostVideos(r, Admin, TRUE, TRUE, Admin)
    \/ \E v \in VideoIds : GetVideoRoute(r, v)
    \/ /\ nextCommentId + CommentsInFlight <= MaxComments
       /\ \E c \in Contents : PostComment(r, Admin + 1, 1, c)
    \/ \E u \in Actors : PostReaction(r, "POST /api/likes", u, 1)
    \/ \E u \in Actors : DeleteReaction(r, "DELETE /api/likes/:videoId", u, 1)
    \/ Step(r)
    \/ Throw(r)

\* A call that does not throw resolves: the database answers every statement,
\* and a statement waiting for a row lock is queued for it and gets it when its
\* holder ends.
SpecAnswers ==
  Init /\ [][NextAnswers]_vars /\ \A r \in Slots : SF_vars(Step(r))

\* the handler of slot r ends in this step
Ends(r) == reqs[r].pc # "idle" /\ reqs'[r].pc = "idle"

\* the response of this step is the one to the request of slot r
Answers(r) ==
  /\ resp'.status # 0
  /\ resp'.route = reqs[r].route
  /\ resp'.user = reqs[r].user
  /\ resp'.vid = reqs[r].vid

\* C13: every handler answers its request exactly once: a handler ends only in
\* a step that sends the response to its request, a step sends a response only
\* as it ends one handler (or answers a request on arrival, which is then never
\* in flight), a call that throws is answered 500, and every request in flight
\* is eventually answered.
C13_AnsweredOnce ==
  /\ [][ /\ \A r \in Slots :
              Ends(r) => /\ Answers(r)
                         /\ \A q \in Slots \ {r} : reqs'[q] = reqs[q]
                         /\ resp'.via \in {"throw", "rollback", "unique_violation"}
                              => resp'.status = 500
         /\ resp' # NoResp /\ reqs' # reqs => \E r \in Slots : Ends(r)
       ]_vars
  /\ \A r \in Slots : (reqs[r].pc # "idle") ~> (reqs[r].pc = "idle")

\* getVideoComments threw after createComment had stored the comment: the
\* request is answered 500
C13_Witness ==
  /\ resp.route = "POST /api/videos/:videoId/comments"
  /\ resp.status = 500
  /\ resp.via = "throw"
  /\ comments # <<>>

\* ------------------------------------------------------------ uploads
\* Uploads of two users and of a client without a session, overlapping, with
\* and without files, valid and invalid; every body names as userId somebody
\* other than the uploader (a body naming the uploader gives the same row
\* whichever id createVideo is handed).
NextUpload ==
  \E r \in Slots :
    \/ \E u \in Actors \cup {Anon}, hasFiles \in BOOLEAN, valid \in BOOLEAN :
         \E b \in Users \ {u} : PostVideos(r, u, hasFiles, valid, b)
    \/ CreateVideo(r)
    \/ \E v \in VideoIds : GetVideoRoute(r, v)
    \/ GetVideo(r)
    \/ IncrementViews(r)
    \/ Throw(r)

SpecUpload == Init /\ [][NextUpload]_vars

\* C14: a video row appears only in a step that answers 201 to POST /api/videos
\* of an authenticated user; its userId is that user's id whatever userId the
\* body carried, and its views, likes and dislikes are 0.
C14_CreatedVideoOwner ==
  [][ \A v \in DOMAIN videos' \ DOMAIN videos :
        /\ resp'.route = "POST /api/videos" /\ resp'.status = 201
        /\ resp'.row = <<v>>
        /\ resp'.user # Anon
        /\ videos'[v].userId = resp'.user
        /\ videos'[v].views = 0 /\ videos'[v].likes = 0 /\ videos'[v].dislikes = 0
    ]_vars

\* user 2 has uploaded a video with a body naming another user; the row is
\* user 2's
C14_Witness ==
  /\ resp.route = "POST /api/videos"
  /\ resp.status = 201
  /\ resp.user = Admin + 1
  /\ resp.row # <<>>
  /\ videos[resp.row[1]].userId = Admin + 1

\* ------------------------------------------------- unlike / undislike of no row
UndoRoutes == ReactionRoutes \ InsertRoutes

\* the tx.delete of slot r returns
DeleteRan(r) == reqs[r].pc = "delete" /\ reqs'[r].pc # "delete" /\ resp' = NoResp

\* unlikeVideo / undislikeVideo of slot r returns (without throwing) and the
\* route answers
UndoReturns(r) ==
  /\ reqs[r].route \in UndoRoutes
  /\ Ends(r)
  /\ resp'.via = ""

\* C15: unlikeVideo / undislikeVideo for a pair with no row deletes nothing,
\* returns false with the counter and every table unchanged, and the route
\* answers 404; a row that is there is deleted with a 200 and the counter of
\* its video goes down by exactly 1; no counter is ever negative.
C15_UnlikeNoRow ==
  /\ [](\A v \in DOMAIN videos : videos[v].likes >= 0 /\ videos[v].dislikes >= 0)
  /\ [][ \A r \in Slots :
           /\ DeleteRan(r) =>
                (reqs'[r].rowOp = "del") = (Table(reqs[r].route)[Key(r)] > 0)
           /\ UndoReturns(r) /\ reqs[r].rowOp = "none" =>
                /\ resp'.status = 404
                /\ UNCHANGED <<videos, likes, dislikes, watchlist, comments, users>>
           /\ UndoReturns(r) /\ reqs[r].rowOp = "del" =>
                /\ resp'.status = 200
                /\ Table(reqs[r].route)[Key(r)] = 1
                /\ IF reqs[r].route \in LikeRoutes
                   THEN likes'[Key(r)] = 0 /\ UNCHANGED dislikes
                   ELSE dislikes'[Key(r)] = 0 /\ UNCHANGED likes
                /\ \A v \in DOMAIN videos :
                     /\ v \in DOMAIN videos'
                     /\ videos'[v] =
                          IF v = reqs[r].vid
                          THEN [videos[v] EXCEPT ![Counter(reqs[r].route)] = @ - 1]
                          ELSE videos[v]
       ]_vars

\* user 2 unliked a video only the administrator likes: 404, the counter stays 1
C15_Witness ==
  /\ resp.route = "DELETE /api/likes/:videoId"
  /\ resp.status = 404
  /\ resp.user = Admin + 1
  /\ HasVideo(resp.vid)
  /\ likes[<<Admin, resp.vid>>] = 1
  /\ likes[<<Admin + 1, resp.vid>>] = 0
  /\ videos[resp.vid].likes = 1

\* --------------------------- likes, dislikes, watchlist entries for a missing video
AddRoutes == InsertRoutes \cup {"POST /api/watchlist"}

\* req.body.videoId as the client sent it: a string of characters
MaxLen == 2
Digits == {"1", "2"}
DigitVal == ("1" :> 1) @@ ("2" :> 2)
Chars == Digits \cup {"x", "."}
RawIds == UNION {[1..n -> Chars] : n \in 0..MaxLen}

\* parseInt reads the longest prefix of digits and ignores what follows; NaN
\* when there is no such prefix
RECURSIVE ReadDigits(_, _)
ReadDigits(raw, acc) ==
  IF raw = <<>> \/ Head(raw) \notin Digits THEN acc
  ELSE ReadDigits(Tail(raw), 10 * acc + DigitVal[Head(raw)])

ParseInt(raw) ==
  IF raw = <<>> \/ Head(raw) \notin Digits THEN NaN ELSE ReadDigits(raw, 0)

\* Likes, dislikes and watchlist entries of one user for videoIds that are a
\* number or not, of a video that is there, was never there or has been deleted
\* by its uploader; requests overlap.
NextMissing ==
  \E r \in Slots :
    \/ nextUpload = 1 /\ PostVideos(r, Admin, TRUE, TRUE, Admin)
    \/ CreateVideo(r)
    \/ DeleteVideoRoute(r, Admin, 1)
    \/ Unlink(r)
    \/ DeleteVideo(r)
    \/ \E route \in InsertRoutes, raw \in RawIds :
         PostReaction(r, route, Admin + 1, ParseInt(raw))
    \/ ReactionCheck(r)
    \/ ReactionInsert(r)
    \/ ReactionUpdate(r)
    \/ ReactionCommit(r)
    \/ \E raw \in RawIds : PostWatchlist(r, Admin + 1, ParseInt(raw))
    \/ AddToWatchlistCheck(r)
    \/ AddToWatchlistInsert(r)
    \/ Throw(r)

SpecMissing == Init /\ [][NextMissing]_vars

\* the videoId sent is an integer: digits and nothing else
IsInteger(raw) == raw # <<>> /\ \A i \in 1..Len(raw) : raw[i] \in Digits

\* the step is the arrival of a POST on one of the three routes with videoId raw
Posted(r, raw) ==
  \/ \E route \in InsertRoutes : PostReaction(r, route, Admin + 1, ParseInt(raw))
  \/ PostWatchlist(r, Admin + 1, ParseInt(raw))

\* the integer an integer videoId denotes
RECURSIVE Value(_)
Value(raw) == IF raw = <<>> THEN 0 ELSE 10 * Value(SubSeq(raw, 1, Len(raw) - 1)) + DigitVal[raw[Len(raw)]]

\* C17: POST /api/likes, /api/dislikes and /api/watchlist answer 400 to a
\* videoId that is not an integer and 404 to an integer videoId that has no
\* video row; with either answer no row is inserted and no counter changes.
C17_MissingVideoRejected ==
  [][ /\ \A r \in Slots, raw \in RawIds :
           /\ ~IsInteger(raw) /\ Posted(r, raw) => resp'.status = 400
           /\ IsInteger(raw) /\ Value(raw) \notin DOMAIN videos /\ Posted(r, raw)
                => resp'.status = 404
      /\ Replied /\ resp'.route \in AddRoutes /\ resp'.status \in {400, 404} =>
           UNCHANGED <<likes, dislikes, watchlist, videos>>
    ]_vars

\* ------------------------------------------------------------ PUT /api/videos/:id
\* updateData = { ...req.body, featured: req.body.featured === 'true' }
UpdateData(body) ==
  [f \in DOMAIN body \cup {"featured"} |->
     IF f = "featured" THEN "featured" \in DOMAIN body /\ body.featured = "true"
     ELSE body[f]]

\* updateVideoSchema: title, thumbnail and category are required
UpdateFields == {"title", "description", "thumbnail", "category", "featured"}
ValidUpdate(data) == {"title", "thumbnail", "category"} \subseteq DOMAIN data

\* parseResult.data: the picked keys, any other key of the body stripped
KeepAll(data) == data
Parsed(data) == [f \in DOMAIN data \cap UpdateFields |-> data[f]]

\* no requireAuth: u is Anon for a client without a session
PutVideo(r, u, v, body) ==
  /\ Free(r)
  /\ DbUnchanged /\ FsUnchanged
  /\ LET route == "PUT /api/videos/:id" IN
     IF ~HasVideo(v) THEN ReplyAtOnce(route, u, v, 404)
     ELSE IF ~ValidUpdate(UpdateData(body)) THEN ReplyAtOnce(route, u, v, 400)
     ELSE /\ reqs' = [reqs EXCEPT ![r] =
               [Idle EXCEPT !.route = route, !.user = u, !.vid = v,
                            !.pc = "updateVideo",
                            !.body = Parsed(UpdateData(body))]]
          /\ resp' = NoResp

\* storage.updateVideo: db.update(videos).set(updates).where(id = id); no row
\* matches when the video is gone
UpdateVideo(r) ==
  /\ reqs[r].pc = "updateVideo"
  /\ ~VideoLocked(reqs[r].vid)
  /\ LET v == reqs[r].vid
         set == reqs[r].body
     IN videos' = IF HasVideo(v)
                  THEN [videos EXCEPT ![v] =
                          [f \in DOMAIN @ |-> IF f \in DOMAIN set THEN set[f] ELSE @[f]]]
                  ELSE videos
  /\ Finish(r, 200, <<>>)
  /\ UNCHANGED <<users, nextVideoId, likes, dislikes, watchlist, comments,
                 nextCommentId>>
  /\ FsUnchanged

\* bodies: the form's fields; the same with every other column of the row
\* added; bodies that updateVideoSchema rejects
PutVideoBodies ==
  { [title |-> "t2", description |-> "d2", thumbnail |-> <<"thumb", 0>>,
     category |-> "c2", featured |-> "true"],
    [title |-> "t2", thumbnail |-> <<"thumb", 0>>, category |-> "c2",
     id |-> MaxVideos + 1, userId |-> NumUsers, videoUrl |-> <<"video", 0>>,
     views |-> MaxViews, likes |-> MaxViews, dislikes |-> MaxViews],
    [title |-> "t2", views |-> MaxViews],
    [userId |-> NumUsers] }

\* Edits of the first upload by its uploader, another user and a client
\* without a session, amid views and likes of it.
NextPutVideo ==
  \E r \in Slots :
    \/ nextUpload = 1 /\ PostVideos(r, Admin, TRUE, TRUE, Admin)
    \/ CreateVideo(r)
    \/ \E u \in {Anon, Admin, Admin + 1}, v \in VideoIds, body \in PutVideoBodies :
         PutVideo(r, u, v, body)
    \/ UpdateVideo(r)
    \/ GetVideoRoute(r, 1)
    \/ GetVideo(r)
    \/ IncrementViews(r)
    \/ PostReaction(r, "POST /api/likes", Admin, 1)
    \/ ReactionCheck(r)
    \/ ReactionInsert(r)
    \/ ReactionUpdate(r)
    \/ ReactionCommit(r)
    \/ Throw(r)

SpecPutVideo == Init /\ [][NextPutVideo]_vars

PutVideoRoute == "PUT /api/videos/:id"
KeptFields == {"id", "userId", "videoUrl", "views", "likes", "dislikes"}

\* C18: a step of PUT /api/videos/:id never changes id, userId, videoUrl, views,
\* likes or dislikes of a video, whatever the body carries, and neither creates
\* nor removes a video; a body that updateVideoSchema rejects is answered 400
\* with every video unchanged.
C18_PutVideoFrame ==
  [][ /\ \A r \in Slots :
           reqs[r].route = PutVideoRoute /\ Ends(r) =>
             /\ DOMAIN videos' = DOMAIN videos
             /\ \A v \in DOMAIN videos, f \in KeptFields :
                  videos'[v][f] = videos[v][f]
      /\ \A r \in Slots, u \in {Anon, Admin, Admin + 1}, v \in DOMAIN videos,
            body \in PutVideoBodies :
           PutVideo(r, u, v, body)
             /\ ~({"title", "thumbnail", "category"} \subseteq DOMAIN body)
             => resp'.status = 400 /\ UNCHANGED videos
      /\ Replied /\ resp'.route = PutVideoRoute /\ resp'.status = 400 =>
           UNCHANGED videos
    ]_vars

\* an edit whose body also carried id, userId, videoUrl, views, likes and
\* dislikes was answered 200: the title changed, the counters kept their values
C18_Witness ==
  /\ resp.route = PutVideoRoute
  /\ resp.status = 200
  /\ HasVideo(resp.vid)
  /\ videos[resp.vid].title = "t2"
  /\ videos[resp.vid].featured = FALSE
  /\ videos[resp.vid].views > 0
  /\ videos[resp.vid].views < MaxViews
  /\ videos[resp.vid].userId = Admin

\* ------------------------------------ DELETE /api/watchlist/:userId/:videoId
\* "Keep old endpoint for backward compatibility": no requireAuth; u is the
\* client (Anon without a session), userId the path parameter
DeleteWatchlistOf(r, u, userId, v) ==
  /\ Free(r)
  /\ DbUnchanged /\ FsUnchanged
  /\ reqs' = [reqs EXCEPT ![r] =
       [Idle EXCEPT !.route = "DELETE /api/watchlist/:userId/:videoId",
                    !.user = u, !.owner = userId, !.vid = v, !.pc = "wlDeleteOf"]]
  /\ resp' = NoResp

\* storage.removeFromWatchlist(userId, videoId) with the path's userId
RemoveFromWatchlistOf(r) ==
  /\ reqs[r].pc = "wlDeleteOf"
  /\ LET k == <<reqs[r].owner, reqs[r].vid>> IN
     /\ watchlist' = [watchlist EXCEPT ![k] = 0]
     /\ IF watchlist[k] > 0 THEN Finish(r, 200, <<>>) ELSE Finish(r, 404, <<>>)
  /\ UNCHANGED <<users, videos, nextVideoId, likes, dislikes, comments,
                 nextCommentId>>
  /\ FsUnchanged

\* One signed-in user uploads a video and puts it on their watchlist; clients
\* without a session call the routes that are registered without requireAuth.
NextOpen ==
  \E r \in Slots :
    \/ nextUpload = 1 /\ PostVideos(r, Admin + 1, TRUE, TRUE, Admin + 1)
    \/ CreateVideo(r)
    \/ PostWatchlist(r, Admin + 1, 1)
    \/ AddToWatchlistCheck(r)
    \/ AddToWatchlistInsert(r)
    \/ DeleteWatchlist(r, Admin + 1, 1)
    \/ RemoveFromWatchlist(r)
    \/ \E body \in PutVideoBodies : PutVideo(r, Anon, 1, body)
    \/ UpdateVideo(r)
    \/ \E userId \in Actors : DeleteWatchlistOf(r, Anon, userId, 1)
    \/ RemoveFromWatchlistOf(r)
    \/ GetVideoRoute(r, 1)
    \/ GetVideo(r)
    \/ IncrementViews(r)
    \/ Throw(r)

SpecOpen == Init /\ [][NextOpen]_vars

\* the step changes a column of an existing video other than its views
MetadataChanged ==
  \E v \in DOMAIN videos :
    \/ v \notin DOMAIN videos'
    \/ [videos'[v] EXCEPT !.views = 0] # [videos[v] EXCEPT !.views = 0]

====
